---- MODULE Spec2Model ----
(***************************************************************************)
(* Model of CollaborationSystem (ExpertRecSystem/system/collaboration.py)  *)
(* and of its base class System (ExpertRecSystem/system/base.py): the      *)
(* session state of one orchestrator instance and the forward pipeline     *)
(* project analysis -> recall -> ranking -> explanation.                   *)
(*                                                                         *)
(* forward is cut at its external calls (the four agents, the embedding    *)
(* model and the index query): every action below is the code from one     *)
(* external call up to the next one, with the outcome of the call drawn    *)
(* from a small set.                                                       *)
(*                                                                         *)
(* Beside the pipeline the module models the public methods finish and     *)
(* reset (SpecApi), the offline jobs and the construction of the system    *)
(* (SpecBuild), Agent.get_LLM (SpecLLM), the chat page (SpecChat) and two  *)
(* threads calling one instance (SpecConcurrent).                          *)
(***************************************************************************)
EXTENDS Integers, Sequences, FiniteSets, TLC

(***************************************************************************)
(* Bounds of the model.                                                    *)
(***************************************************************************)
\* longest chat history from which SpecSession still starts an invocation
MaxHistory == 2
\* longest sorted_experts list the Recommender answers with
MaxRanked == 2
\* most get_LLM calls SpecLLM makes
MaxLLMCalls == 3
\* most project forms SpecChat submits
MaxSubmissions == 2

(***************************************************************************)
(* Python helpers.                                                         *)
(***************************************************************************)
Min(a, b) == IF a <= b THEN a ELSE b

Max(a, b) == IF a >= b THEN a ELSE b

\* s[:n] of a Python list: a negative n counts from the end
Slice(s, n) ==
    IF n >= 0 THEN SubSeq(s, 1, Min(n, Len(s)))
              ELSE SubSeq(s, 1, Max(Len(s) + n, 0))

\* str(r) of the f-string interpolation, for the ranks of the model
Str(r) == CASE r = 1 -> "1" [] r = 2 -> "2" [] r = 3 -> "3" [] OTHER -> "?"

(***************************************************************************)
(* The serving artifacts: the expert table read by read_expert_data and    *)
(* the IndexFlatIP index over the experts' vectors, in the same row order. *)
(* Vectors are integer multiples of unit vectors; the inner product orders *)
(* them as the cosine does.  Two experts share the name A.                 *)
(***************************************************************************)
ExpertTable ==
    << [expert_id |-> 1, expert_name |-> "A", specialist |-> "X", description |-> "dA1"],
       [expert_id |-> 2, expert_name |-> "B", specialist |-> "Y", description |-> "dB"],
       [expert_id |-> 3, expert_name |-> "A", specialist |-> "X", description |-> "dA3"] >>

ExpertVectors == << <<3, 0>>, <<0, 3>>, <<2, 1>> >>

\* the label and the distance IndexFlatIP.search pads a short result with
NoLabel == -1

NoDistance == -1000

Dot(u, v) == u[1] * v[1] + u[2] * v[2]

\* get_project_embedding: a deterministic function of the text
get_project_embedding(text) == IF text[1] = "" THEN <<0, 1>> ELSE <<1, 0>>

\* a search that takes the smallest inner product first
Best_Smallest(idx, q, S) ==
    CHOOSE p \in S : \A r \in S :
        \/ Dot(idx[p + 1], q) < Dot(idx[r + 1], q)
        \/ Dot(idx[p + 1], q) = Dot(idx[r + 1], q) /\ p <= r

\* the 0-based position of S with the largest inner product, lowest first on a tie
Best(idx, q, S) ==
    CHOOSE p \in S : \A r \in S :
        \/ Dot(idx[p + 1], q) > Dot(idx[r + 1], q)
        \/ Dot(idx[p + 1], q) = Dot(idx[r + 1], q) /\ p <= r

RECURSIVE TopK(_, _, _, _)
TopK(idx, q, S, k) ==
    IF k = 0 THEN << >>
    ELSE IF S = {} THEN <<NoLabel>> \o TopK(idx, q, S, k - 1)
    ELSE LET b == Best(idx, q, S)
         IN  <<b>> \o TopK(idx, q, S \ {b}, k - 1)

\* index.search(project_embedding, top_k), top_k >= 1: labels and distances
IndexSearch(idx, q, k) ==
    LET labels == TopK(idx, q, 0 .. (Len(idx) - 1), k)
    IN  [indices   |-> labels,
         distances |-> [i \in 1 .. k |->
                          IF labels[i] = NoLabel THEN NoDistance
                          ELSE Dot(idx[labels[i] + 1], q)]]

\* find_similar_experts: (distances[0], indices)
find_similar_experts(q, idx, k) ==
    LET r == IndexSearch(idx, q, k)
    IN  [sim |-> r.distances, indices |-> r.indices]

\* DataFrame.iloc[i]: a negative position counts from the end
ILoc(table, i) == IF i >= 0 THEN table[i + 1] ELSE table[Len(table) + i + 1]

\* the list recall builds from the search result
expert_info_list(table, found) ==
    [i \in 1 .. Len(found.indices) |->
        LET row == ILoc(table, found.indices[i])
        IN  [expert_id   |-> row.expert_id,
             expert_name |-> row.expert_name,
             specialist  |-> row.specialist,
             description |-> row.description,
             similarity  |-> found.sim[i]]]

(***************************************************************************)
(* The offline jobs.  expert_vectors embeds the rows of all_data.csv and    *)
(* adds the vectors to the index in row order; expert_analysis writes one   *)
(* analysed row per row of train_data.csv.                                  *)
(***************************************************************************)
\* a row of the raw csv files, for the columns the model follows
RawRow(row) ==
    [expert_id |-> row.expert_id, expert_name |-> row.expert_name,
     specialist |-> row.specialist]

\* the raw experts behind ExpertTable
RawExperts == [i \in 1 .. Len(ExpertTable) |-> RawRow(ExpertTable[i])]

\* get_embedding of one row's expert text
ExpertEmbedding(row) == ExpertVectors[row.expert_id]

\* the ExpertAnalyst's description of one row
ExpertAnalysis(row) == ExpertTable[row.expert_id].description

\* expert_vectors: get_embedding over the rows, then save_to_faiss
save_to_faiss(rows) == [i \in 1 .. Len(rows) |-> ExpertEmbedding(rows[i])]

\* expert_analysis: one result per row, in row order
expert_analysis(rows) ==
    [i \in 1 .. Len(rows) |->
        [expert_id   |-> rows[i].expert_id,
         expert_name |-> rows[i].expert_name,
         specialist  |-> rows[i].specialist,
         description |-> ExpertAnalysis(rows[i])]]

\* a list without its i-th element
Remove(list, i) == SubSeq(list, 1, i - 1) \o SubSeq(list, i + 1, Len(list))

AllDataChoices == {RawExperts}

\* train_data.csv: the rows of all_data.csv, or those rows less one
TrainDataChoices ==
    {RawExperts} \cup {Remove(RawExperts, i) : i \in 1 .. Len(RawExperts)}

(***************************************************************************)
(* init_agents: the class of an agent is looked up by name in the globals   *)
(* of collaboration.py.                                                     *)
(***************************************************************************)
SupportedRoles == <<"ProjectAnalyst", "ExpertAnalyst", "Recommender", "Explainer">>

Range(list) == {list[i] : i \in 1 .. Len(list)}

\* what globals()[agent] is: a concrete agent class, the abstract class Agent,
\* another class, a module or function, or no global at all
GlobalKind(agent) ==
    CASE agent \in Range(SupportedRoles)              -> "agent class"
      [] agent = "Agent"                              -> "abstract agent class"
      [] agent \in {"System", "AutoModel"}            -> "other class"
      [] agent \in {"json", "logger", "read_json"}    -> "no class"
      [] OTHER                                        -> "missing"

\* the exception one iteration of init_agents ends with ("" when it adds the agent)
InitAgentError(agent) ==
    CASE GlobalKind(agent) = "missing"              -> "ValueError"
      [] GlobalKind(agent) = "no class"             -> "TypeError"
      [] GlobalKind(agent) = "other class"          -> "AssertionError"
      [] GlobalKind(agent) = "abstract agent class" -> "TypeError"
      [] OTHER                                      -> ""

\* the exception init_agents ends with: that of the first name that fails
InitAgentsError(config) ==
    IF \A i \in 1 .. Len(config) : InitAgentError(config[i]) = "" THEN ""
    ELSE InitAgentError(config[CHOOSE i \in 1 .. Len(config) :
                                 /\ InitAgentError(config[i]) # ""
                                 /\ \A j \in 1 .. (i - 1) : InitAgentError(config[j]) = ""])

\* agent names a configuration may hold besides the four roles
OtherNames == {"Agent", "System", "json", "Manager"}

\* the four roles, the four roles and one more name, or a single name
AgentConfigs ==
    {SupportedRoles} \cup {Append(SupportedRoles, n) : n \in OtherNames}
    \cup {<<n>> : n \in Range(SupportedRoles) \cup OtherNames}

\* the answers finish is called with
Answers == {"answer-1", "answer-2"}

(***************************************************************************)
(* Agent.get_LLM.  A configuration is a mapping from keys to values.       *)
(***************************************************************************)
\* the mappings over the given keys: each key absent or with one of its values
Mappings(values) ==
    UNION {[K -> UNION {values[k] : k \in K}] : K \in SUBSET (DOMAIN values)}

\* the LLM configurations of the model
LLMConfigs ==
    LET values == [model_type  |-> {"api", "opensource"},
                   model_name  |-> {"gpt-a", "gpt-b"},
                   temperature |-> {"0", "1"}]
    IN  {c \in Mappings(values) : \A k \in DOMAIN c : c[k] \in values[k]}

\* the mapping after get_LLM: del config["model_type"], when the key is there
ConfigAfterGetLLM(config) ==
    IF "model_type" \in DOMAIN config
    THEN [k \in (DOMAIN config) \ {"model_type"} |-> config[k]]
    ELSE config

\* what get_LLM ends with: an exception, or AnyOpenAILLM(**config)
get_LLM(config) ==
    IF "model_type" \notin DOMAIN config
    THEN [raised |-> "KeyError", llm |-> << >>]
    ELSE IF config["model_type"] # "api"
    THEN [raised |-> "NotImplementedError", llm |-> << >>]
    ELSE [raised |-> "", llm |-> ConfigAfterGetLLM(config)]

(***************************************************************************)
(* display and add_description.                                            *)
(***************************************************************************)
RequiredKeys == {"rank", "name", "specialist"}

WellFormed(e) == RequiredKeys \subseteq DOMAIN e

\* the f-string with name and specialist interchanged
FormatExpert_Swapped(e) ==
    << "**rank**: ", Str(e.rank), ", **name**: ", e.specialist,
       ", **specialist**: ", e.name, "  \n" >>

\* the f-string of display; the labels stand for the Chinese words for
\* rank, name and specialty, which the code writes in markdown bold
FormatExpert(e) ==
    << "**rank**: ", Str(e.rank), ", **name**: ", e.name,
       ", **specialist**: ", e.specialist, "  \n" >>

\* a display that validates the first element only
DisplayRaises_FirstOnly(results) ==
    \/ ~results.has_sorted_experts
    \/ /\ Len(results.sorted_experts) >= 1
       /\ ~WellFormed(results.sorted_experts[1])

\* a display that goes on with an empty list when sorted_experts is missing
DisplayRaises_KeysOnly(results) ==
    \E i \in 1 .. Len(results.sorted_experts) :
        ~WellFormed(results.sorted_experts[i])

\* display raises NotImplementedError: no sorted_experts, or an element of
\* the loop lacks a key
DisplayRaises(results) ==
    \/ ~results.has_sorted_experts
    \/ \E i \in 1 .. Len(results.sorted_experts) :
          ~WellFormed(results.sorted_experts[i])

\* the elements display's loop formats: those before the first that lacks a key
FormattedCount(list) ==
    IF \A i \in 1 .. Len(list) : WellFormed(list[i]) THEN Len(list)
    ELSE (CHOOSE i \in 1 .. Len(list) :
            /\ ~WellFormed(list[i])
            /\ \A j \in 1 .. (i - 1) : WellFormed(list[j])) - 1

\* display's local message when the loop ends
DisplayMessage(results) ==
    [i \in 1 .. FormattedCount(results.sorted_experts) |->
        FormatExpert(results.sorted_experts[i])]

\* an experts_dict that keeps the first candidate of a name
ExpertsDict_First(experts) ==
    [n \in {experts[i].expert_name : i \in 1 .. Len(experts)} |->
        LET first == CHOOSE i \in 1 .. Len(experts) :
                        /\ experts[i].expert_name = n
                        /\ \A j \in 1 .. Len(experts) :
                              experts[j].expert_name = n => i <= j
        IN  experts[first].description]

\* experts_dict: a later candidate of the same name overwrites an earlier one
ExpertsDict(experts) ==
    [n \in {experts[i].expert_name : i \in 1 .. Len(experts)} |->
        LET last == CHOOSE i \in 1 .. Len(experts) :
                       /\ experts[i].expert_name = n
                       /\ \A j \in 1 .. Len(experts) :
                             experts[j].expert_name = n => j <= i
        IN  experts[last].description]

\* add_description reads expert_result["name"] of each of the first n elements
AddDescriptionRaises(results, n) ==
    \E i \in 1 .. Len(Slice(results.sorted_experts, n)) :
        "name" \notin DOMAIN results.sorted_experts[i]

add_description(experts, results, n) ==
    LET d   == ExpertsDict(experts)
        top == Slice(results.sorted_experts, n)
    IN  [i \in 1 .. Len(top) |->
            IF top[i].name \in DOMAIN d
            THEN [k \in DOMAIN top[i] \cup {"description"} |->
                     IF k = "description" THEN d[top[i].name] ELSE top[i][k]]
            ELSE top[i]]

\* str.capitalize, for the roles of the model
Capitalize(role) ==
    CASE role = "user" -> "User" [] role = "assistant" -> "Assistant" [] OTHER -> role

\* format_chat_history: the prompt text of a history, as a list of text pieces
format_chat_history(history) ==
    IF history = << >> THEN <<"No chat history.\n">>
    ELSE <<"\n">> \o [i \in 1 .. Len(history) |->
                        <<Capitalize(history[i][2]), ": ", history[i][1]>>] \o <<"\n">>

(***************************************************************************)
(* Inputs of forward and outcomes of the external calls.                   *)
(***************************************************************************)
\* one string, (name, description), an empty name, three strings
UserInputs == { <<"n">>, <<"n", "d">>, <<"", "d">>, <<"n", "d", "x">> }

\* every combination of arguments, top_k and num also out of range
PipelineInputs ==
    [user_input : UserInputs, reset : BOOLEAN,
     top_k : 0 .. (Len(ExpertTable) + 1), num : 0 .. (MaxRanked + 1)]

\* the arguments of the invocations of a longer session
SessionInputs ==
    [user_input : UserInputs, reset : BOOLEAN,
     top_k : {Len(ExpertTable) - 1}, num : {1}]

\* the arguments of the invocations that run between finish and reset calls
ApiInputs ==
    [user_input : {<<"n", "d">>}, reset : BOOLEAN,
     top_k : {Len(ExpertTable) - 1}, num : {1}]

AnalystOutputs == {"analysis"}

ExplainerOutputs == {"why-1", "why-2"}

Restrict(e, K) == [k \in K |-> e[k]]

\* ranked experts the Recommender may answer with: two candidates, an
\* expert that is no candidate (Z), and elements that lack one key
RankedPool ==
    LET a == [rank |-> 1, name |-> "A", specialist |-> "X"]
        b == [rank |-> 2, name |-> "B", specialist |-> "Y"]
        z == [rank |-> 3, name |-> "Z", specialist |-> "X"]
    IN  {a, b, z} \cup {Restrict(a, RequiredKeys \ {k}) : k \in RequiredKeys}

SeqsUpTo(S, n) == UNION {[1 .. m -> S] : m \in 0 .. n}

NoResults == [has_sorted_experts |-> FALSE, sorted_experts |-> << >>]

\* what json.loads makes of the Recommender's answer when it parses
ParsedResults(n) ==
    {NoResults} \cup
    {[has_sorted_experts |-> TRUE, sorted_experts |-> s] : s \in SeqsUpTo(RankedPool, n)}

(***************************************************************************)
(* State.                                                                  *)
(***************************************************************************)
VARIABLES
    chat_history,    \* self._chat_history: tuples (chat, role)
    scratchpad,      \* self.scratchpad
    finished,        \* self.finished
    answer,          \* self.answer
    web_demo,        \* self.web_demo
    web_log,         \* self.web_log
    web_log_set,     \* whether the attribute web_log exists
    manager_kwargs,  \* self.manager_kwargs
    expert_data,     \* self.expert_data
    index,           \* self.index
    pc,              \* where the current forward call stands
    args,            \* user_input, reset, top_k, num of the current call
    project,         \* local project
    experts,         \* local experts
    results,         \* local results
    final_results,   \* local final_results
    update_results,  \* local update_results
    explain,         \* local explain
    ret,             \* the value forward returned (pc = "done")
    error,           \* the exception that left forward (pc = "failed")
    calls,           \* external calls made by the current call, in order
    logged,          \* log(message, ...) calls of the current call, in order
    prior_history,   \* chat history when the current call was entered
    finish,          \* the instance's attribute finish: the method, or a value
    agents,          \* self.agents: the names of the constructed agents
    agents_config,   \* config["agents"]: the configured agent names, in order
    all_data,        \* data/raw/all_data.csv, read by expert_vectors
    train_data,      \* data/raw/train_data.csv, read by expert_analysis
    index_file,      \* the index file written by save_to_faiss
    table_file,      \* the expert table written by expert_analysis
    recalled,        \* the recall calls so far: query text, top_k, result
    last_call,       \* the last call made on the instance from outside
    llm_config,      \* the mapping a caller hands to get_LLM as config
    llm_file,        \* the content of the file at config_path of get_LLM
    llm_results,     \* the outcomes of the get_LLM calls so far, in order
    session_config_path, \* st.session_state.config_path
    session_system,  \* st.session_state.system: the config it was built from
    page_system,     \* the system the last chat_config run handed to chat_page
    page_outcome,    \* how the last chat_config run ended
    page_selected,   \* the config_path argument of the last chat_config run
    page_chat,       \* st.session_state.chat_history: role and answering system
    callers          \* the forward calls that run concurrently on the instance

session == <<chat_history, scratchpad, finished, answer>>

tables == <<expert_data, index>>

offline == <<agents_config, all_data, train_data, index_file, table_file>>

llm == <<llm_config, llm_file, llm_results>>

page == <<session_config_path, session_system, page_system, page_outcome,
          page_selected, page_chat>>

\* state that no call on the one instance of the pipeline touches
outside == <<llm, page, callers>>

artifacts == <<web_demo, finish, agents, offline, outside>>

locals == <<project, experts, results, final_results, update_results, explain>>

vars == <<chat_history, scratchpad, finished, answer, web_demo, web_log,
          web_log_set, manager_kwargs, expert_data, index, pc, args, project,
          experts, results, final_results, update_results, explain, ret,
          error, calls, logged, prior_history, finish, agents, agents_config,
          all_data, train_data, index_file, table_file, recalled, last_call,
          llm_config, llm_file, llm_results, session_config_path,
          session_system, page_system, page_outcome, page_selected, page_chat,
          callers>>

NoArgs == [user_input |-> << >>, reset |-> TRUE, top_k |-> 0, num |-> 0]

\* System.log: the entries a message adds to web_log in web-demo mode
WebEntries(message, role, is_list) ==
    IF ~is_list THEN << <<"header", role, message>> >>
    ELSE <<  <<"header", role>>  >> \o
         (IF role = "ExpertAnalyst"
          THEN [i \in 1 .. Len(message) |->
                  <<"item", message[i].expert_id, message[i].expert_name,
                    message[i].specialist, message[i].description>>]
          ELSE IF role = "Recommender" THEN message
          ELSE << >>)

\* System.log applied to a sequence of (message, role, is_list) calls
RECURSIVE WebLogAfter(_, _)
WebLogAfter(log, entries) ==
    IF entries = << >> THEN log
    ELSE WebLogAfter(log \o WebEntries(entries[1].message, entries[1].role,
                                       entries[1].is_list),
                     Tail(entries))

Log(entries) ==
    /\ logged' = logged \o entries
    /\ web_log' = IF web_demo THEN WebLogAfter(web_log, entries) ELSE web_log
    /\ UNCHANGED web_log_set

Entry(message, role, is_list) ==
    [message |-> message, role |-> role, is_list |-> is_list]

\* forward with the Recommender called before recall
StageAfter_RankFirst(stage) ==
    CASE stage = "analyzing"  -> "ranking"
      [] stage = "ranking"    -> "recalling"
      [] stage = "recalling"  -> "explaining"
      [] stage = "explaining" -> "done"
      [] OTHER                -> "analyzing"

\* the order of forward's statements: the stage entered when a stage returns
StageAfter(stage) ==
    CASE stage = "analyzing"  -> "recalling"
      [] stage = "recalling"  -> "ranking"
      [] stage = "ranking"    -> "explaining"
      [] stage = "explaining" -> "done"
      [] OTHER                -> "analyzing"

\* the stage goes on to the next one
Proceed ==
    /\ pc' = StageAfter(pc)
    /\ error' = ""

\* a forward that catches the exception and runs the stage again
Raise_Retry(kind) ==
    /\ pc' = pc
    /\ error' = kind

\* an exception leaves forward: nothing catches it
Raise(kind) ==
    /\ pc' = "failed"
    /\ error' = kind

\* no get_LLM call is under way
LLMIdle ==
    /\ llm_config = << >>
    /\ llm_file = << >>
    /\ llm_results = << >>

\* no chat page is open
PageIdle ==
    /\ session_config_path = "none"
    /\ session_system = "none"
    /\ page_system = "none"
    /\ page_outcome = ""
    /\ page_selected = "none"
    /\ page_chat = << >>

(***************************************************************************)
(* System.__init__: init, then reset(clear=True).  CollaborationSystem's    *)
(* reset does not hand clear on to System.reset, so no web_log is made.    *)
(***************************************************************************)
Init ==
    /\ chat_history = << >>
    /\ scratchpad = ""
    /\ finished = FALSE
    /\ answer = ""
    /\ web_demo \in BOOLEAN
    /\ web_log = << >>
    /\ web_log_set = FALSE
    /\ manager_kwargs = << >>
    /\ expert_data = ExpertTable
    /\ index = ExpertVectors
    /\ pc = "idle"
    /\ args = NoArgs
    /\ project = ""
    /\ experts = << >>
    /\ results = NoResults
    /\ final_results = << >>
    /\ update_results = << >>
    /\ explain = ""
    /\ ret = << >>
    /\ error = ""
    /\ calls = << >>
    /\ logged = << >>
    /\ prior_history = << >>
    /\ finish = "method"
    /\ agents = Range(SupportedRoles)
    /\ agents_config = SupportedRoles
    /\ all_data = RawExperts
    /\ train_data = RawExperts
    /\ index_file = ExpertVectors
    /\ table_file = ExpertTable
    /\ recalled = {}
    /\ last_call = [name |-> "init", clear |-> TRUE]
    /\ LLMIdle
    /\ PageIdle
    /\ callers = << >>

(***************************************************************************)
(* System.__call__ and forward up to the call of the Project Analyst.      *)
(***************************************************************************)
\* a reset that never empties the chat history
ResetHistory_Kept(history, clear) == history

\* the chat history CollaborationSystem.reset(clear) leaves
ResetHistory(history, clear) == IF clear THEN << >> ELSE history

\* a forward that calls self.reset(clear=True)
HistoryAfterReset_Clearing(history, reset) ==
    IF reset THEN ResetHistory(history, TRUE) ELSE history

\* the chat history after forward's "if reset: self.reset()"
HistoryAfterReset(history, reset) ==
    IF reset THEN ResetHistory(history, FALSE) ELSE history

\* an add_chat_history that inserts at the front
add_chat_history_Front(history, chat, role) == <<  <<chat, role>>  >> \o history

\* add_chat_history
add_chat_history(history, chat, role) == Append(history, <<chat, role>>)

\* Python truth value of a string
Truthy(s) == s # ""

\* forward's check of user_input, "if len(user_input) != 2: assert <message>":
\* the assert fails when its operand, here the message itself, is falsy
InputRejected(user_input) ==
    Len(user_input) # 2 /\ ~Truthy("Project name and project information are both needed.")

\* a __call__ that keeps the web_log of the call before
clear_web_log_Kept(log) == log

\* clear_web_log: self.web_log = []
clear_web_log(log) == << >>

Start(bound, inputs) ==
    /\ pc \in {"idle", "done", "failed"}
    /\ Len(chat_history) < bound
    /\ \E a \in inputs :
        /\ args' = a
        /\ prior_history' = chat_history
        /\ web_log' = clear_web_log(web_log)
        /\ web_log_set' = TRUE
        /\ manager_kwargs' = [history |-> format_chat_history(chat_history)]
        /\ project' = ""
        /\ experts' = << >>
        /\ results' = NoResults
        /\ final_results' = << >>
        /\ update_results' = << >>
        /\ explain' = ""
        /\ ret' = << >>
        /\ calls' = << >>
        /\ logged' = << >>
        /\ IF InputRejected(a.user_input)
           THEN /\ Raise("AssertionError")
                /\ UNCHANGED session
           ELSE /\ scratchpad' = IF a.reset THEN "" ELSE scratchpad
                /\ finished' = IF a.reset THEN FALSE ELSE finished
                /\ answer' = IF a.reset THEN "" ELSE answer
                /\ chat_history' =
                      add_chat_history(HistoryAfterReset(chat_history, a.reset),
                                       a.user_input, "user")
                \* project_description reads user_input[0] and user_input[1]
                /\ IF Len(a.user_input) < 2
                   THEN Raise("IndexError")
                   ELSE Proceed
    /\ UNCHANGED <<artifacts, tables, recalled>>
    /\ last_call' = [name |-> "forward", clear |-> FALSE]

(***************************************************************************)
(* project_description: the Project Analyst is called; forward logs its    *)
(* answer and enters recall.                                               *)
(***************************************************************************)
Analyze ==
    /\ pc = "analyzing"
    /\ calls' = Append(calls, "ProjectAnalyst")
    /\ \/ /\ Raise("GenerationError")
          /\ UNCHANGED <<project, logged, web_log, web_log_set>>
       \/ \E text \in AnalystOutputs :
          /\ project' = text
          /\ Log(<<Entry(text, "ProjectAnalyst", FALSE)>>)
          /\ Proceed
    /\ UNCHANGED <<session, artifacts, last_call, tables, recalled, manager_kwargs, args,
                   experts, results, final_results, update_results, explain,
                   ret, prior_history>>

(***************************************************************************)
(* recall: embedding, index query, lookup of the rows, two log calls.      *)
(***************************************************************************)
\* the text recall embeds: user_input[0] + ":" + user_input[1]
QueryText(user_input) == <<user_input[1], ":", user_input[2]>>

\* the value recall returns when neither external call fails
recall(user_input, k, table, idx) ==
    expert_info_list(table,
        find_similar_experts(get_project_embedding(QueryText(user_input)), idx, k))

\* "、".join(expert_names), as the list of the joined names
JoinedNames(list) == [i \in 1 .. Len(list) |-> list[i].expert_name]

\* a recall that keeps the rows it looked up as the table
TableAfterLookup_Kept(table, found) ==
    [i \in 1 .. Len(found.indices) |-> ILoc(table, found.indices[i])]

\* self.expert_data after the iloc lookups of recall: they copy, the table stays
TableAfterLookup(table, found) == table

\* the record of one recall call: the query, top_k, the list it returned,
\* and the number of the turn it ran in
RecallRecord(user_input, k, list, history) ==
    [text |-> QueryText(user_input), top_k |-> k, list |-> list,
     turn |-> Len(history)]

\* a recall that leaves out the experts it returned earlier in the session
Recall_Fresh ==
    /\ pc = "recalling"
    /\ \/ /\ calls' = Append(calls, "embed")
          /\ Raise("EncodingError")
          /\ UNCHANGED <<experts, logged, web_log, web_log_set, tables, recalled>>
       \/ /\ args.top_k < 1
          /\ calls' = calls \o <<"embed", "search">>
          /\ Raise("AssertionError")
          /\ UNCHANGED <<experts, logged, web_log, web_log_set, tables, recalled>>
       \/ /\ args.top_k >= 1
          /\ calls' = calls \o <<"embed", "search">>
          /\ LET seen == UNION {{r.list[i].expert_id : i \in 1 .. Len(r.list)} :
                                  r \in recalled}
                 list == SelectSeq(recall(args.user_input, args.top_k, expert_data, index),
                                   LAMBDA e : e.expert_id \notin seen)
             IN  /\ experts' = list
                 /\ recalled' = recalled \cup
                        {RecallRecord(args.user_input, args.top_k, list, chat_history)}
                 /\ Log(<<Entry(JoinedNames(list), "Searcher", FALSE),
                          Entry(list, "ExpertAnalyst", TRUE)>>)
          /\ UNCHANGED tables
          /\ Proceed
    /\ UNCHANGED <<session, artifacts, last_call, manager_kwargs, args, project, results,
                   final_results, update_results, explain, ret, prior_history>>

Recall ==
    /\ pc = "recalling"
    /\ \/ /\ calls' = Append(calls, "embed")
          /\ Raise("EncodingError")
          /\ UNCHANGED <<experts, logged, web_log, web_log_set, tables, recalled>>
       \/ /\ args.top_k < 1
          \* IndexFlatIP.search asserts k > 0
          /\ calls' = calls \o <<"embed", "search">>
          /\ Raise("AssertionError")
          /\ UNCHANGED <<experts, logged, web_log, web_log_set, tables, recalled>>
       \/ /\ args.top_k >= 1
          /\ calls' = calls \o <<"embed", "search">>
          /\ LET list  == recall(args.user_input, args.top_k, expert_data, index)
                 found == find_similar_experts(
                              get_project_embedding(QueryText(args.user_input)),
                              index, args.top_k)
             IN  /\ experts' = list
                 /\ expert_data' = TableAfterLookup(expert_data, found)
                 /\ recalled' = recalled \cup
                        {RecallRecord(args.user_input, args.top_k, list, chat_history)}
                 /\ Log(<<Entry(JoinedNames(list), "Searcher", FALSE),
                          Entry(list, "ExpertAnalyst", TRUE)>>)
          /\ UNCHANGED index
          /\ Proceed
    /\ UNCHANGED <<session, artifacts, last_call, manager_kwargs, args, project, results,
                   final_results, update_results, explain, ret, prior_history>>

(***************************************************************************)
(* The Recommender is called; json.loads, display, add_description.        *)
(***************************************************************************)
\* results after add_description wrote the descriptions into its elements
WithDescriptions(r, updated) ==
    [r EXCEPT !.sorted_experts =
        updated \o SubSeq(r.sorted_experts, Len(updated) + 1, Len(r.sorted_experts))]

\* the message display builds and returns
display(r) == DisplayMessage(r)

\* a display that logs the first string only
DisplayLog_First(message) ==
    <<Entry(SubSeq(message, 1, Min(1, Len(message))), "Recommender", TRUE)>>

\* the log call of display: the message, as the Recommender's output
DisplayLog(message) == <<Entry(message, "Recommender", TRUE)>>

Rank(n) ==
    /\ pc = "ranking"
    /\ calls' = Append(calls, "Recommender")
    /\ \/ /\ Raise("GenerationError")
          /\ UNCHANGED <<results, final_results, update_results, logged,
                         web_log, web_log_set>>
       \/ /\ Raise("JSONDecodeError")
          /\ UNCHANGED <<results, final_results, update_results, logged,
                         web_log, web_log_set>>
       \/ \E r \in ParsedResults(n) :
          IF DisplayRaises(r)
          THEN /\ Raise("NotImplementedError")
               /\ results' = r
               /\ UNCHANGED <<final_results, update_results, logged,
                              web_log, web_log_set>>
          ELSE /\ final_results' = display(r)
               /\ Log(DisplayLog(display(r)))
               \* expert_result["name"]: no element lacks name once display passed
               /\ IF AddDescriptionRaises(r, args.num)
                  THEN /\ Raise("KeyError")
                       /\ results' = r
                       /\ UNCHANGED update_results
                  ELSE /\ update_results' = add_description(experts, r, args.num)
                       /\ results' = WithDescriptions(r,
                                         add_description(experts, r, args.num))
                       /\ Proceed
    /\ UNCHANGED <<session, artifacts, last_call, tables, recalled, manager_kwargs, args,
                   project, experts, explain, ret, prior_history>>

(***************************************************************************)
(* The Explainer is called; forward logs its answer and returns.           *)
(***************************************************************************)
\* a forward that returns final_results whole
Returned_Unsliced(final, n) == final

\* the value forward returns: final_results[:num]
Returned(final, n) == Slice(final, n)

\* a forward that puts the Explainer's answer in front of what it returns
Explain_Merged ==
    /\ pc = "explaining"
    /\ calls' = Append(calls, "Explainer")
    /\ \/ /\ Raise("GenerationError")
          /\ UNCHANGED <<explain, ret, logged, web_log, web_log_set>>
       \/ \E text \in ExplainerOutputs :
          /\ explain' = text
          /\ Log(<<Entry(text, "Explainer", FALSE)>>)
          /\ ret' = Returned(<< <<text>> >> \o final_results, args.num)
          /\ Proceed
    /\ UNCHANGED <<session, artifacts, last_call, tables, recalled, manager_kwargs, args,
                   project, experts, results, final_results, update_results,
                   prior_history>>

Explain ==
    /\ pc = "explaining"
    /\ calls' = Append(calls, "Explainer")
    /\ \/ /\ Raise("GenerationError")
          /\ UNCHANGED <<explain, ret, logged, web_log, web_log_set>>
       \/ \E text \in ExplainerOutputs :
          /\ explain' = text
          /\ Log(<<Entry(text, "Explainer", FALSE)>>)
          /\ ret' = Returned(final_results, args.num)
          /\ Proceed
    /\ UNCHANGED <<session, artifacts, last_call, tables, recalled, manager_kwargs, args,
                   project, experts, results, final_results, update_results,
                   prior_history>>

(***************************************************************************)
(* Spec: one invocation on a newly constructed system, over every          *)
(* combination of arguments and every answer of the Recommender.           *)
(* SpecSession: sequences of invocations on one system.                    *)
(***************************************************************************)
Invoke == Start(1, PipelineInputs)

RankAny == Rank(MaxRanked)

Next == Invoke \/ Analyze \/ Recall \/ RankAny \/ Explain

Spec == Init /\ [][Next]_vars

InvokeAgain == Start(MaxHistory, SessionInputs)

RankOne == Rank(1)

NextSession == InvokeAgain \/ Analyze \/ Recall \/ RankOne \/ Explain

SpecSession == Init /\ [][NextSession]_vars

(***************************************************************************)
(* The public methods finish and reset, called between invocations.        *)
(***************************************************************************)
\* System.finish: sets answer and the attribute finish; finished is not set
finish_finished(was_finished) == was_finished

Finish ==
    /\ pc \in {"idle", "done", "failed"}
    /\ \E a \in Answers :
        \* once the attribute finish holds True, self.finish(...) is a TypeError
        IF finish = "method"
        THEN /\ answer' = a
             /\ finished' = finish_finished(finished)
             /\ finish' = "True"
        ELSE UNCHANGED <<answer, finished, finish>>
    /\ last_call' = [name |-> "finish", clear |-> FALSE]
    /\ UNCHANGED <<chat_history, scratchpad, web_demo, web_log, web_log_set,
                   manager_kwargs, tables, recalled, pc, args, locals, ret,
                   error, calls, logged, prior_history, agents, offline,
                   outside>>

\* CollaborationSystem.reset(clear), System.reset(clear)
ResetCall ==
    /\ pc \in {"idle", "done", "failed"}
    /\ \E clear \in BOOLEAN :
        /\ scratchpad' = ""
        /\ finished' = FALSE
        /\ answer' = ""
        \* super().reset(*args, **kwargs) runs with clear=False: web_log stays
        /\ chat_history' = ResetHistory(chat_history, clear)
        /\ last_call' = [name |-> "reset", clear |-> clear]
    /\ UNCHANGED <<artifacts, web_log, web_log_set, manager_kwargs, tables,
                   recalled, pc, args, locals, ret, error, calls, logged,
                   prior_history>>

InvokeBetween == Start(MaxHistory, ApiInputs)

NextApi ==
    InvokeBetween \/ Analyze \/ Recall \/ RankOne \/ Explain \/ Finish \/ ResetCall

SpecApi == Init /\ [][NextApi]_vars

(***************************************************************************)
(* The offline jobs and System.__init__: init_agents, the loading of the   *)
(* index and of the expert table, reset(clear=True).                       *)
(***************************************************************************)
InitBuild ==
    /\ chat_history = << >>
    /\ scratchpad = ""
    /\ finished = FALSE
    /\ answer = ""
    /\ web_demo \in BOOLEAN
    /\ web_log = << >>
    /\ web_log_set = FALSE
    /\ manager_kwargs = << >>
    /\ expert_data = << >>
    /\ index = << >>
    /\ pc = "unbuilt"
    /\ args = NoArgs
    /\ project = ""
    /\ experts = << >>
    /\ results = NoResults
    /\ final_results = << >>
    /\ update_results = << >>
    /\ explain = ""
    /\ ret = << >>
    /\ error = ""
    /\ calls = << >>
    /\ logged = << >>
    /\ prior_history = << >>
    /\ finish = "method"
    /\ agents = {}
    /\ agents_config \in AgentConfigs
    /\ all_data \in AllDataChoices
    /\ train_data \in TrainDataChoices
    /\ index_file = << >>
    /\ table_file = << >>
    /\ recalled = {}
    /\ last_call = [name |-> "none", clear |-> FALSE]
    /\ LLMIdle
    /\ PageIdle
    /\ callers = << >>

\* expert_vectors.py run as a script
BuildIndex ==
    /\ pc = "unbuilt"
    /\ index_file = << >>
    /\ index_file' = save_to_faiss(all_data)
    /\ UNCHANGED <<session, web_demo, web_log, web_log_set, manager_kwargs,
                   tables, recalled, pc, args, locals, ret, error, calls, logged,
                   prior_history, finish, agents, agents_config, all_data,
                   train_data, table_file, last_call, outside>>

\* expert_analysis.py run as a script
BuildTable ==
    /\ pc = "unbuilt"
    /\ table_file = << >>
    /\ table_file' = expert_analysis(train_data)
    /\ UNCHANGED <<session, web_demo, web_log, web_log_set, manager_kwargs,
                   tables, recalled, pc, args, locals, ret, error, calls, logged,
                   prior_history, finish, agents, agents_config, all_data,
                   train_data, index_file, last_call, outside>>

\* the exception System.__init__ ends with ("" when the system is constructed)
ConstructError(config, idx_file, tbl_file) ==
    IF InitAgentsError(config) # "" THEN InitAgentsError(config)
    ELSE IF idx_file = << >> THEN "RuntimeError"
    ELSE IF tbl_file = << >> THEN "FileNotFoundError"
    ELSE ""

Construct ==
    /\ pc = "unbuilt"
    /\ IF ConstructError(agents_config, index_file, table_file) # ""
       THEN /\ pc' = "unconstructed"
            /\ error' = ConstructError(agents_config, index_file, table_file)
            /\ UNCHANGED <<agents, tables, session>>
       ELSE /\ agents' = Range(agents_config)
            \* self.reset(clear=True)
            /\ scratchpad' = ""
            /\ finished' = FALSE
            /\ answer' = ""
            /\ chat_history' = ResetHistory(chat_history, TRUE)
            /\ index' = index_file
            /\ expert_data' = table_file
            /\ pc' = "idle"
            /\ error' = ""
    /\ last_call' = [name |-> "init", clear |-> TRUE]
    /\ UNCHANGED <<web_demo, web_log, web_log_set, manager_kwargs,
                   recalled, args, locals, ret, calls, logged, prior_history,
                   finish, offline, outside>>

NextBuild == BuildIndex \/ BuildTable \/ Construct

SpecBuild == InitBuild /\ [][NextBuild]_vars

(***************************************************************************)
(* get_LLM called by a holder of a configuration: with the mapping itself   *)
(* (config=...) or with the path of the file it was loaded from.            *)
(***************************************************************************)
\* everything but the state of the get_LLM calls
but_llm ==
    <<session, web_demo, web_log, web_log_set, manager_kwargs, tables, pc, args,
      locals, ret, error, calls, logged, prior_history, finish, agents, offline,
      recalled, last_call, page, callers>>

InitLLM ==
    /\ chat_history = << >>
    /\ scratchpad = ""
    /\ finished = FALSE
    /\ answer = ""
    /\ web_demo = FALSE
    /\ web_log = << >>
    /\ web_log_set = FALSE
    /\ manager_kwargs = << >>
    /\ expert_data = << >>
    /\ index = << >>
    /\ pc = "unbuilt"
    /\ args = NoArgs
    /\ project = ""
    /\ experts = << >>
    /\ results = NoResults
    /\ final_results = << >>
    /\ update_results = << >>
    /\ explain = ""
    /\ ret = << >>
    /\ error = ""
    /\ calls = << >>
    /\ logged = << >>
    /\ prior_history = << >>
    /\ finish = "method"
    /\ agents = {}
    /\ agents_config = SupportedRoles
    /\ all_data = RawExperts
    /\ train_data = RawExperts
    /\ index_file = << >>
    /\ table_file = << >>
    /\ recalled = {}
    /\ last_call = [name |-> "none", clear |-> FALSE]
    /\ PageIdle
    /\ callers = << >>
    \* the holder has loaded the file into a mapping
    /\ llm_file \in LLMConfigs
    /\ llm_config = llm_file
    /\ llm_results = << >>

\* get_LLM(config=llm_config)
GetLLMOfConfig ==
    /\ Len(llm_results) < MaxLLMCalls
    /\ llm_results' = Append(llm_results,
                             [via |-> "config", result |-> get_LLM(llm_config)])
    /\ llm_config' = ConfigAfterGetLLM(llm_config)
    /\ UNCHANGED <<llm_file, but_llm>>

\* get_LLM(config_path=...): the file is loaded into a new mapping
GetLLMOfPath ==
    /\ Len(llm_results) < MaxLLMCalls
    /\ llm_results' = Append(llm_results,
                             [via |-> "path", result |-> get_LLM(llm_file)])
    /\ UNCHANGED <<llm_config, llm_file, but_llm>>

NextLLM == GetLLMOfConfig \/ GetLLMOfPath

SpecLLM == InitLLM /\ [][NextLLM]_vars

(***************************************************************************)
(* The chat page: chat_config runs once per rerun of the page, with the    *)
(* config path selected at that moment.                                    *)
(***************************************************************************)
\* the system configurations that can be selected
ConfigPaths == {"a.json", "b.json", "c.json", "d.json"}

\* check_config is false: the configuration asks for local models, no CUDA
check_config(config_path) == config_path # "d.json"

\* renew, as the if/elif chain of chat_config computes it
Renew(config_path, stored_path, stored_system) ==
    \/ stored_path = "none"
    \/ stored_path # config_path
    \/ stored_system = "none"

\* st.session_state.config_path when the if/elif chain is through
PathAfterChain(config_path, stored_path) ==
    IF stored_path = "none" \/ stored_path # config_path
    THEN config_path ELSE stored_path

but_page ==
    <<session, web_demo, web_log, web_log_set, manager_kwargs, tables, pc, args,
      locals, ret, error, calls, logged, prior_history, finish, agents, offline,
      recalled, last_call, llm, callers>>

InitChat ==
    /\ chat_history = << >>
    /\ scratchpad = ""
    /\ finished = FALSE
    /\ answer = ""
    /\ web_demo = TRUE
    /\ web_log = << >>
    /\ web_log_set = FALSE
    /\ manager_kwargs = << >>
    /\ expert_data = << >>
    /\ index = << >>
    /\ pc = "unbuilt"
    /\ args = NoArgs
    /\ project = ""
    /\ experts = << >>
    /\ results = NoResults
    /\ final_results = << >>
    /\ update_results = << >>
    /\ explain = ""
    /\ ret = << >>
    /\ error = ""
    /\ calls = << >>
    /\ logged = << >>
    /\ prior_history = << >>
    /\ finish = "method"
    /\ agents = {}
    /\ agents_config = SupportedRoles
    /\ all_data = RawExperts
    /\ train_data = RawExperts
    /\ index_file = ExpertVectors
    /\ table_file = ExpertTable
    /\ recalled = {}
    /\ last_call = [name |-> "none", clear |-> FALSE]
    /\ LLMIdle
    /\ PageIdle
    /\ callers = << >>

\* one run of chat_config(system_type, config_path, ...); constructed tells
\* whether get_system returns a system or raises
ChatConfig ==
    \E config_path \in ConfigPaths, constructed \in BOOLEAN :
        /\ page_selected' = config_path
        /\ IF ~check_config(config_path)
           THEN /\ page_outcome' = "st.error"
                /\ page_system' = "none"
                /\ UNCHANGED <<session_config_path, session_system>>
           ELSE IF Renew(config_path, session_config_path, session_system)
           THEN IF constructed
                THEN /\ session_config_path' = config_path
                     /\ session_system' = config_path
                     /\ page_system' = config_path
                     /\ page_outcome' = "chat_page"
                ELSE /\ session_config_path' =
                            PathAfterChain(config_path, session_config_path)
                     /\ page_system' = "none"
                     /\ page_outcome' = "exception"
                     /\ UNCHANGED session_system
           ELSE /\ page_system' = session_system
                /\ page_outcome' = "chat_page"
                /\ UNCHANGED <<session_config_path, session_system>>
        /\ UNCHANGED <<page_chat, but_page>>

\* the number of user messages in the page's chat history
Submissions == Len(SelectSeq(page_chat, LAMBDA m : m.role = "user"))

\* chat_page with the form submitted: the user message, the call of the
\* system, and, when it returns, the run log and the response
Submit ==
    /\ page_outcome = "chat_page"
    /\ Submissions < MaxSubmissions
    /\ \E returned \in BOOLEAN :
        IF returned
        THEN /\ page_chat' = page_chat \o
                    << [role |-> "user", system |-> "none"],
                       [role |-> "assistant", system |-> page_system],
                       [role |-> "assistant", system |-> page_system] >>
             /\ UNCHANGED page_outcome
        ELSE /\ page_chat' = Append(page_chat, [role |-> "user", system |-> "none"])
             /\ page_outcome' = "exception"
    /\ UNCHANGED <<session_config_path, session_system, page_system,
                   page_selected, but_page>>

NextChat == ChatConfig \/ Submit

SpecChat == InitChat /\ [][NextChat]_vars

(***************************************************************************)
(* Two forward calls on one instance, from two threads.  Neither __call__   *)
(* nor forward takes a lock; a thread can be preempted while it waits for   *)
(* an external call, so the calls interleave at the external calls.  The   *)
(* attributes of the instance are shared, the locals of forward are not.   *)
(***************************************************************************)
Callers == {1, 2}

\* the inputs the two threads call the system with
CallerInputs == {<<"n", "d">>, <<"", "d">>}

\* the arguments top_k and num of the two calls
CallerTopK == Len(ExpertTable) - 1

\* the Recommender's parsed answer in the two calls
CallerRanking ==
    [has_sorted_experts |-> TRUE,
     sorted_experts |-> << [rank |-> 1, name |-> "A", specialist |-> "X"] >>]

\* the log calls forward makes after the external call of a stage returned
StageEntries(stage, user_input) ==
    CASE stage = "analyzing" -> <<Entry("analysis", "ProjectAnalyst", FALSE)>>
      [] stage = "recalling" ->
            LET list == recall(user_input, CallerTopK, expert_data, index)
            IN  <<Entry(JoinedNames(list), "Searcher", FALSE),
                  Entry(list, "ExpertAnalyst", TRUE)>>
      [] stage = "ranking"   -> DisplayLog(display(CallerRanking))
      [] stage = "explaining" -> <<Entry("why-1", "Explainer", FALSE)>>

but_callers ==
    <<scratchpad, finished, answer, web_demo, tables, pc, args, locals, ret,
      error, calls, logged, prior_history, finish, agents, offline, recalled,
      last_call, llm, page>>

InitConcurrent ==
    /\ chat_history = << >>
    /\ scratchpad = ""
    /\ finished = FALSE
    /\ answer = ""
    /\ web_demo = TRUE
    /\ web_log = << >>
    /\ web_log_set = FALSE
    /\ manager_kwargs = << >>
    /\ expert_data = ExpertTable
    /\ index = ExpertVectors
    /\ pc = "idle"
    /\ args = NoArgs
    /\ project = ""
    /\ experts = << >>
    /\ results = NoResults
    /\ final_results = << >>
    /\ update_results = << >>
    /\ explain = ""
    /\ ret = << >>
    /\ error = ""
    /\ calls = << >>
    /\ logged = << >>
    /\ prior_history = << >>
    /\ finish = "method"
    /\ agents = Range(SupportedRoles)
    /\ agents_config = SupportedRoles
    /\ all_data = RawExperts
    /\ train_data = RawExperts
    /\ index_file = ExpertVectors
    /\ table_file = ExpertTable
    /\ recalled = {}
    /\ last_call = [name |-> "init", clear |-> TRUE]
    /\ LLMIdle
    /\ PageIdle
    /\ \E inputs \in [Callers -> CallerInputs] :
          callers = [t \in Callers |->
                       [pc |-> "idle", user_input |-> inputs[t], logged |-> << >>,
                        web_log_at_return |-> << >>,
                        history_at_return |-> << >>]]

\* a thread enters __call__: clear_web_log, then forward up to the call of
\* the Project Analyst
EnterCall ==
    \E t \in Callers :
        /\ callers[t].pc = "idle"
        /\ web_log' = clear_web_log(web_log)
        /\ web_log_set' = TRUE
        /\ manager_kwargs' = [history |-> format_chat_history(chat_history)]
        /\ chat_history' = add_chat_history(chat_history, callers[t].user_input, "user")
        /\ callers' = [callers EXCEPT ![t].pc = StageAfter("idle")]
        /\ UNCHANGED but_callers

\* the external call a thread waits for returns or raises; forward runs on
\* to its next external call, or returns
AdvanceCall ==
    \E t \in Callers :
        /\ callers[t].pc \in {"analyzing", "recalling", "ranking", "explaining"}
        /\ \/ /\ callers' = [callers EXCEPT ![t].pc = "failed"]
              /\ UNCHANGED web_log
           \/ LET entries == StageEntries(callers[t].pc, callers[t].user_input)
                  log     == WebLogAfter(web_log, entries)
                  next    == StageAfter(callers[t].pc)
              IN  /\ web_log' = log
                  /\ callers' =
                        [callers EXCEPT
                           ![t].pc = next,
                           ![t].logged = @ \o entries,
                           ![t].web_log_at_return =
                               IF next = "done" THEN log ELSE @,
                           ![t].history_at_return =
                               IF next = "done" THEN chat_history ELSE @]
        /\ UNCHANGED <<chat_history, web_log_set, manager_kwargs, but_callers>>

NextConcurrent == EnterCall \/ AdvanceCall

SpecConcurrent == InitConcurrent /\ [][NextConcurrent]_vars

TypeOK ==
    /\ pc \in {"unbuilt", "unconstructed", "idle", "analyzing", "recalling",
               "ranking", "explaining", "done", "failed"}
    /\ finished \in BOOLEAN
    /\ web_log_set \in BOOLEAN
    /\ error \in {"", "AssertionError", "IndexError", "GenerationError",
                  "EncodingError", "JSONDecodeError", "NotImplementedError",
                  "KeyError", "ValueError", "TypeError", "RuntimeError",
                  "FileNotFoundError"}

(***************************************************************************)
(* Properties.                                                             *)
(***************************************************************************)
\* the user turn of the current invocation
UserTurn == <<args.user_input, "user">>

\* the external calls of a complete invocation, in pipeline order
FullCalls == <<"ProjectAnalyst", "embed", "search", "Recommender", "Explainer">>

IsPrefix(s, t) == Len(s) <= Len(t) /\ \A i \in 1 .. Len(s) : s[i] = t[i]

\* the element lacks rank, name or specialist
LacksKey(e) ==
    "rank" \notin DOMAIN e \/ "name" \notin DOMAIN e \/ "specialist" \notin DOMAIN e

\* the Recommender's parsed ranking of this invocation
Ranked == results.sorted_experts

\* the log calls made with the Recommender as agent
RecommenderLogged == SelectSeq(logged, LAMBDA e : e.role = "Recommender")

\* the string of one ranked expert as the code writes it
BoldString(e) ==
    << "**rank**: ", Str(e.rank), ", **name**: ", e.name,
       ", **specialist**: ", e.specialist, "  \n" >>

\* the string of one ranked expert in the form the specification gives
PlainString(e) ==
    << "rank: ", Str(e.rank), ", name: ", e.name, ", specialist: ", e.specialist >>

\* min(num, n) for the num >= 0 of the model
Available == IF args.num <= Len(Ranked) THEN args.num ELSE Len(Ranked)

\* C1 as stated: after forward(reset=true) returns, the chat history holds
\* only the user turn of that invocation.
C1_ResetWipesHistory ==
    (pc = "done" /\ args.reset) => chat_history = <<UserTurn>>

\* C1 amended: forward(reset=true) does not wipe the chat history; when it
\* returns, the history is the history from before the call followed by the
\* user turn of that invocation.
C1_ResetKeepsHistory ==
    (pc = "done" /\ args.reset) => chat_history = Append(prior_history, UserTurn)

C1_Witness == pc = "done" /\ args.reset /\ Len(prior_history) >= 1

InvalidUserInput(user_input) ==
    Len(user_input) # 2 \/ \E i \in 1 .. Len(user_input) : user_input[i] = ""

\* C3: an invocation whose user_input is not exactly two non-empty strings
\* fails and makes no external call.
C3_InvalidInputRejected ==
    (pc # "idle" /\ InvalidUserInput(args.user_input)) =>
        (pc = "failed" /\ calls = << >>)

\* C4: an invocation with top_k < 1, top_k > index size or num < 1 is rejected
\* before the Project Analyst or any other pipeline step runs.
C4_OutOfRangeRejected ==
    (pc # "idle" /\ (args.top_k < 1 \/ args.top_k > Len(index) \/ args.num < 1)) =>
        (pc = "failed" /\ calls = << >>)

\* the stage the specification's state machine enters after a stage
StageSuccessor(stage) ==
    CASE stage = "analyzing"  -> "recalling"
      [] stage = "recalling"  -> "ranking"
      [] stage = "ranking"    -> "explaining"
      [] stage = "explaining" -> "done"
      [] OTHER                -> "analyzing"

\* C5: a completed invocation has called the Project Analyst, the recall step
\* (embedding, index query), the Recommender and the Explainer exactly once
\* each, in that order, and every change of stage goes to the next stage of
\* IDLE, ANALYZING_PROJECT, RECALLING, RANKING, EXPLAINING, DONE (or to FAILED).
C5_StagesInOrder ==
    /\ [](pc = "done" => calls = FullCalls)
    /\ [][pc' # pc => (pc' = "failed" \/ pc' = StageSuccessor(pc))]_vars

C5_Witness == pc = "done" /\ calls = FullCalls

\* C6: when a step fails the invocation is aborted: the error leaves forward,
\* nothing is returned, every stage up to the failed one was called once and
\* in order, and no further external call is made for that invocation.
C6_FailureAborts ==
    /\ [](error # "" => (pc = "failed" /\ ret = << >> /\ IsPrefix(calls, FullCalls)))
    /\ [][error # "" => (calls' = calls \/ calls' = << >>)]_vars

C6_Witness ==
    /\ pc = "failed" /\ error = "GenerationError"
    /\ calls = <<"ProjectAnalyst", "embed", "search", "Recommender">>

\* C7: when an element of sorted_experts, at whatever position, lacks rank,
\* name or specialist, forward fails with display's error (NotImplementedError,
\* the specification's MalformedAgentOutputError), returns nothing, logs no
\* ranked list and does not call the Explainer.
C7_MalformedRejected ==
    (results.has_sorted_experts /\ \E i \in 1 .. Len(Ranked) : LacksKey(Ranked[i])) =>
        /\ pc = "failed"
        /\ error = "NotImplementedError"
        /\ ret = << >>
        /\ RecommenderLogged = << >>
        /\ \A i \in 1 .. Len(calls) : calls[i] # "Explainer"

C7_Witness ==
    /\ pc = "failed" /\ error = "NotImplementedError"
    /\ results.has_sorted_experts
    /\ args.num >= 1 /\ Len(Ranked) > args.num
    /\ \A i \in 1 .. args.num : ~LacksKey(Ranked[i])
    /\ LacksKey(Ranked[Len(Ranked)])

\* C8: for num >= 1 and a well-formed ranking of n experts the returned list
\* has length min(num, n).
C8_LengthClamped ==
    (pc = "done" /\ args.num >= 1) =>
        Len(ret) = (IF args.num <= Len(Ranked) THEN args.num ELSE Len(Ranked))

C8_Witness ==
    /\ pc = "done" /\ Len(Ranked) >= 1 /\ args.num > Len(Ranked)
    /\ Len(ret) = Len(Ranked)

\* C9 as stated: the returned list holds, in the Recommender's order, one
\* string per entry among the first num, of the form
\* "rank: {rank}, name: {name}, specialist: {specialist}".
C9_ReturnedPlainStrings ==
    pc = "done" =>
        /\ Len(ret) = Available
        /\ \A i \in 1 .. Len(ret) : ret[i] = PlainString(Ranked[i])

\* C9 amended: the returned list holds, in the Recommender's order, one string
\* per entry among the first num, of the form
\* "**rank**: {rank}, **name**: {name}, **specialist**: {specialist}  \n"
\* (labels in markdown bold, two spaces and a newline at the end).
C9_ReturnedBoldStrings ==
    pc = "done" =>
        /\ Len(ret) = Available
        /\ \A i \in 1 .. Len(ret) : ret[i] = BoldString(Ranked[i])

C9_Witness == pc = "done" /\ Len(ret) = 2 /\ ret[1] # ret[2]

\* C10 as stated: the list logged as the Recommender's output is the list
\* forward returns (the formatted first num entries).
C10_LoggedIsReturned ==
    pc = "done" =>
        /\ Len(RecommenderLogged) = 1
        /\ RecommenderLogged[1].message = ret

\* C10 amended: the list logged as the Recommender's output is the formatted
\* full sorted_experts list, whatever num is; the list forward returns is the
\* first min(num, n) entries of the logged list.
C10_LoggedIsFullList ==
    pc \in {"explaining", "done"} =>
        /\ Len(RecommenderLogged) = 1
        /\ Len(RecommenderLogged[1].message) = Len(Ranked)
        /\ \A i \in 1 .. Len(Ranked) :
              RecommenderLogged[1].message[i] = BoldString(Ranked[i])
        /\ pc = "done" => IsPrefix(ret, RecommenderLogged[1].message)

C10_Witness ==
    /\ pc = "done" /\ Len(ret) >= 1
    /\ Len(RecommenderLogged) = 1
    /\ Len(RecommenderLogged[1].message) > Len(ret)

CandidateNames == {experts[j].expert_name : j \in 1 .. Len(experts)}

\* C12: the list passed to the Explainer is the first min(num, n) entries of
\* sorted_experts, in ranked order, each with the description of a candidate
\* that carries the same name.
C12_ExplainedAreTopNum ==
    pc \in {"explaining", "done"} =>
        /\ Len(update_results) = Available
        /\ \A i \in 1 .. Len(update_results) :
              /\ Restrict(update_results[i], RequiredKeys)
                    = Restrict(Ranked[i], RequiredKeys)
              /\ "description" \in DOMAIN update_results[i]
              /\ \E j \in 1 .. Len(experts) :
                    /\ experts[j].expert_name = update_results[i].name
                    /\ experts[j].description = update_results[i].description

\* C13: closed world: every expert in the returned list and in the list
\* passed to the Explainer has the name of a candidate recall produced in
\* this invocation.
C13_ClosedWorld ==
    pc = "done" =>
        /\ \A i \in 1 .. Len(ret) : Ranked[i].name \in CandidateNames
        /\ \A i \in 1 .. Len(update_results) :
              update_results[i].name \in CandidateNames

\* C14: for 1 <= top_k <= index size, the candidate list recall returns has
\* at most top_k entries, similarities that do not increase along the list,
\* and pairwise distinct expert_ids.
C14_RecallOrdered ==
    (pc \in {"ranking", "explaining", "done"}
       /\ 1 <= args.top_k /\ args.top_k <= Len(index)) =>
        /\ Len(experts) <= args.top_k
        /\ \A i \in 1 .. (Len(experts) - 1) :
              experts[i].similarity >= experts[i + 1].similarity
        /\ \A i, j \in 1 .. Len(experts) :
              i # j => experts[i].expert_id # experts[j].expert_id

C14_Witness ==
    /\ pc = "ranking" /\ args.top_k = Len(index) /\ Len(experts) = Len(index)
    /\ experts[1].similarity > experts[Len(experts)].similarity

C16_TableAlignedWithIndex ==
    pc = "idle" =>
        /\ Len(index) = Len(all_data)
        /\ Len(expert_data) = Len(index)
        /\ \A p \in 0 .. (Len(index) - 1) :
              /\ index[p + 1] = ExpertEmbedding(all_data[p + 1])
              /\ ILoc(expert_data, p).expert_id = all_data[p + 1].expert_id

\* C17: finish(a) sets the answer to a and makes is_finished() true.
C17_FinishFinishes ==
    [][(finish = "method" /\ finish' # "method") =>
          /\ answer' \in Answers
          /\ finished' = TRUE]_vars

\* the configuration names an agent that is none of the four supported roles
UnknownRoleConfigured ==
    \E i \in 1 .. Len(agents_config) : agents_config[i] \notin Range(SupportedRoles)

\* C18: when the configuration names an agent that is none of the four
\* supported roles, construction ends with ValueError and no system is
\* constructed.
C18_UnknownRoleRejected ==
    (UnknownRoleConfigured /\ pc # "unbuilt") =>
        /\ pc = "unconstructed"
        /\ error = "ValueError"

\* the web_log entries that are formatted ranked experts
RankedEntries ==
    {i \in 1 .. Len(web_log) :
        web_log[i][1] \in {FormatExpert(e)[1] : e \in {r \in RankedPool : WellFormed(r)}}}

\* C19: in web-demo mode a failed invocation has rendered no ranked expert.
C19_NoPartialListOnError ==
    (web_demo /\ pc = "failed") => RankedEntries = {}

\* C20: at serving time the index and the expert table are the ones loaded
\* at construction, after any sequence of invocations, finished or failed.
C20_TablesImmutable ==
    /\ index = index_file
    /\ expert_data = table_file

C20_Witness ==
    /\ pc \in {"done", "failed"} /\ Len(prior_history) >= 1
    /\ \E r1, r2 \in recalled : r1.turn # r2.turn

\* C21: get_LLM leaves the mapping it is given unchanged, and every call
\* with that mapping has the same outcome.
C21_ConfigUnchanged ==
    /\ llm_config = llm_file
    /\ \A i, j \in 1 .. Len(llm_results) :
          (llm_results[i].via = "config" /\ llm_results[j].via = "config") =>
              llm_results[i].result = llm_results[j].result

\* the Recommender answered and json.loads parsed the answer
RecommenderParsed ==
    /\ "Recommender" \in Range(calls)
    /\ pc # "ranking"
    /\ ~(pc = "failed" /\ calls[Len(calls)] = "Recommender"
           /\ error \in {"GenerationError", "JSONDecodeError"})

\* C23: when the Recommender's parsed output has no key sorted_experts, display
\* raises NotImplementedError: nothing is logged as Recommender output, the
\* Explainer is not called and forward returns nothing.
C23_MissingKeyRejected ==
    (RecommenderParsed /\ ~results.has_sorted_experts) =>
        /\ pc = "failed"
        /\ error = "NotImplementedError"
        /\ RecommenderLogged = << >>
        /\ "Explainer" \notin Range(calls)
        /\ ret = << >>

C23_Witness ==
    /\ RecommenderParsed /\ ~results.has_sorted_experts
    /\ error = "NotImplementedError" /\ Len(logged) = 3

\* C25: an invocation whose user_input is not of length two leaves the chat
\* history as it was before the call.
C25_RejectedLeavesHistory ==
    (pc \in {"failed", "done"} /\ Len(args.user_input) # 2) =>
        chat_history = prior_history

\* the roles of the log calls of the current invocation, in order
LoggedRoles == [i \in 1 .. Len(logged) |-> logged[i].role]

\* C26: in web-demo mode, when the call returns, web_log holds the entries of
\* the log calls of that call and no others, in the order project analysis,
\* candidate names, candidate list, ranked list, explanation; the candidate
\* names and the candidate list are logged before the Recommender is called.
C26_WebLogOfThisCall ==
    /\ (web_demo /\ pc = "done") =>
          /\ web_log = WebLogAfter(<< >>, logged)
          /\ LoggedRoles = <<"ProjectAnalyst", "Searcher", "ExpertAnalyst",
                             "Recommender", "Explainer">>
          /\ logged[1].message = project
          /\ logged[2].message = JoinedNames(experts)
          /\ logged[3].message = experts
          /\ logged[4].message = final_results
          /\ logged[5].message = explain
    /\ (web_demo /\ pc = "ranking") =>
          /\ LoggedRoles = <<"ProjectAnalyst", "Searcher", "ExpertAnalyst">>
          /\ "Recommender" \notin Range(calls)

C26_Witness ==
    /\ web_demo /\ pc = "done" /\ Len(prior_history) >= 1
    /\ Len(web_log) >= 5
    /\ \E r1, r2 \in recalled : r1.turn # r2.turn

\* C27: in web-demo mode web_log exists from construction on, so that every
\* log call finds it.
C27_WebLogInitialised ==
    web_demo => (web_log_set /\ (last_call.name = "init" => web_log = << >>))

\* the positions of the candidates that carry the name
Namesakes(name) == {j \in 1 .. Len(experts) : experts[j].expert_name = name}

\* C29: every expert passed to the Explainer whose name is a candidate's has
\* the description of the last candidate of that name in recall order, which
\* is the one of lowest similarity; an expert whose name is no candidate's is
\* passed on without a description.
C29_JoinByName ==
    pc \in {"explaining", "done"} =>
        \A i \in 1 .. Len(update_results) :
            LET found == Namesakes(update_results[i].name)
            IN  IF found = {}
                THEN "description" \notin DOMAIN update_results[i]
                ELSE LET last == CHOOSE j \in found : \A k \in found : k <= j
                     IN  /\ "description" \in DOMAIN update_results[i]
                         /\ update_results[i].description = experts[last].description
                         /\ \A k \in found :
                               experts[last].similarity <= experts[k].similarity

C29_Witness ==
    /\ pc = "explaining" /\ Len(update_results) = 2
    /\ Namesakes(update_results[1].name) = {1, 2}
    /\ experts[1].description # experts[2].description
    /\ Namesakes(update_results[2].name) = {}

\* C24: reset sets scratchpad to empty, finished to false and answer to its
\* initial value, and empties the chat history exactly when clear is true;
\* a newly constructed system has an empty chat history.
C24_ResetFrame ==
    /\ [](last_call.name = "init" =>
             (chat_history = << >> /\ scratchpad = "" /\ ~finished /\ answer = ""))
    /\ [][last_call'.name = "reset" =>
             /\ scratchpad' = ""
             /\ finished' = FALSE
             /\ answer' = ""
             /\ chat_history' = (IF last_call'.clear THEN << >> ELSE chat_history)]_vars

C24_Witness ==
    /\ last_call = [name |-> "reset", clear |-> TRUE]
    /\ chat_history = << >> /\ Len(prior_history) >= 1
    /\ finish = "True" /\ answer = ""

\* C28: the system a chat_config run hands to the chat page, and the one
\* stored in the session then, was constructed from the config path of that
\* run, which is the one stored in the session.
C28_SystemOfSelectedConfig ==
    page_outcome = "chat_page" =>
        /\ session_config_path = page_selected
        /\ session_system = session_config_path
        /\ page_system = session_config_path

\* the user turn of a thread's call
TurnOf(t) == <<callers[t].user_input, "user">>

\* C22: when a call returns, the run log holds the entries of that call and
\* no others, and the chat history is one that a sequential execution of the
\* two calls gives at that moment: the turn of the call, alone or after the
\* turn of the other call.
C22_CallsSerialized ==
    \A t \in DOMAIN callers :
        callers[t].pc = "done" =>
            /\ callers[t].web_log_at_return = WebLogAfter(<< >>, callers[t].logged)
            /\ \E o \in (DOMAIN callers) \ {t} :
                  callers[t].history_at_return \in
                      { <<TurnOf(t)>>, <<TurnOf(o), TurnOf(t)>> }

====
